---- MODULE Spec2Model ----
(***************************************************************************)
(* dyngo: a branded single-value Slot, the Proof that fill returns, and   *)
(* the two Container strategies (Option<T> and MaybeUninit<T>).            *)
(*                                                                         *)
(* Spec           the Slot/Proof protocol as client code that compiles can *)
(*                drive it: with / fill / unlock / drop, nested scopes.    *)
(* SpecContainer  the public Container trait used directly, without Slot   *)
(*                and Proof (unpack is an unsafe fn anybody may call).     *)
(***************************************************************************)
EXTENDS Integers, Sequences, FiniteSets

VARIABLES
    slots,      \* every Slot built by Slot::with so far, in creation order
    stack,      \* indices of the with invocations whose callback is running
    proofs,     \* the Proof values the running callbacks hold
    raw,        \* containers obtained directly from Container::empty
    T,          \* the element type the generic code is instantiated at
    released,   \* per value id: how many times the value was dropped
    nextId      \* id of the next value handed to a fill

vars == <<slots, stack, proofs, raw, T, released, nextId>>

\* ---- bounds ------------------------------------------------------------
MaxSlots == 2
MaxFills == 3
MaxRaw == 2

\* A value is identified by the order in which it was created: two values
\* are never equal, as two ObservableDrop instances are never the same one.
Values == 1..MaxFills

\* ---- element types and layout -----------------------------------------
ElemTypes == {"i32", "u64"}
Strategies == {"Option", "MaybeUninit"}

SizeOfElem(t) == IF t = "u64" THEN 8 ELSE 4
AlignOfElem(t) == IF t = "u64" THEN 8 ELSE 4

\* PhantomData<_> is a zero-sized type
SizeOfPhantomData == 0

SizeOfInvariant == SizeOfPhantomData

RoundUp(n, a) == ((n + a - 1) \div a) * a

\* Option<T> carries a presence tag next to the value (neither i32 nor u64
\* has a niche to hide it in); MaybeUninit<T> is laid out as T.
SizeOfContainer_tagged(C, t) == RoundUp(SizeOfElem(t) + 1, AlignOfElem(t))
SizeOfContainer(C, t) ==
    IF C = "MaybeUninit"
    THEN SizeOfElem(t)
    ELSE RoundUp(SizeOfElem(t) + 1, AlignOfElem(t))

SizeOfSlot(C, t) ==
    RoundUp(SizeOfContainer(C, t) + SizeOfPhantomData + SizeOfInvariant,
            AlignOfElem(t))

\* ---- Container<T> for Option<T> ---------------------------------------
\* A container's contents are a sequence of length <= 1: <<>> is None (or
\* uninitialised memory), <<v>> is Some(v) (or memory holding v).
Outcome(k, c, m) == [kind |-> k, val |-> c, msg |-> m]

OptionEmpty == << >>

OptionFill_noStore(c, v) == [contents |-> c, dropped |-> <<v>>]
OptionFill_forget(c, v) == [contents |-> <<v>>, dropped |-> << >>]
OptionFill(c, v) == [contents |-> <<v>>, dropped |-> c]

OptionUnpack_default(c) ==
    IF c # << >>
    THEN {Outcome("value", c, "")}
    ELSE {Outcome("value", <<w>>, "") : w \in Values}
OptionUnpack(c) ==
    IF c # << >>
    THEN {Outcome("value", c, "")}
    ELSE {Outcome("panic", << >>, "trying to unpack None Container")}

OptionDrop_forget(c) == << >>
OptionDrop(c) == c

\* ---- Container<T> for MaybeUninit<T> ----------------------------------
MaybeUninitEmpty == << >>

MaybeUninitFill_noWrite(c, v) == [contents |-> c, dropped |-> << >>]
MaybeUninitFill_dropOld(c, v) == [contents |-> <<v>>, dropped |-> c]
MaybeUninitFill(c, v) == [contents |-> <<v>>, dropped |-> << >>]

\* assume_init on memory nobody wrote is undefined behaviour: any bit
\* pattern may come back, or none at all.
MaybeUninitUnpack(c) ==
    IF c # << >>
    THEN {Outcome("value", c, "")}
    ELSE {Outcome("ub", << >>, "")} \cup {Outcome("ub", <<w>>, "") : w \in Values}

MaybeUninitDrop(c) == << >>

\* ---- trait dispatch ----------------------------------------------------
ContainerEmpty(C) == IF C = "Option" THEN OptionEmpty ELSE MaybeUninitEmpty

ContainerFill(C, c, v) ==
    IF C = "Option" THEN OptionFill(c, v) ELSE MaybeUninitFill(c, v)

ContainerUnpack(C, c) ==
    IF C = "Option" THEN OptionUnpack(c) ELSE MaybeUninitUnpack(c)

ContainerDrop(C, c) ==
    IF C = "Option" THEN OptionDrop(c) ELSE MaybeUninitDrop(c)

\* released after dropping the values of the sequence d (length <= 1)
Release(rel, d) ==
    IF d = << >> THEN rel ELSE [rel EXCEPT ![d[1]] = @ + 1]

\* ---- Brand, Slot, Proof ------------------------------------------------
\* for<'id>: the callback is checked against a lifetime no other with
\* invocation can name.
FreshBrand_shared(ss) == 1
FreshBrand(ss) == Len(ss) + 1

NewSlot(b, C) ==
    [brand |-> b, C |-> C, contents |-> ContainerEmpty(C),
     own |-> "owned", fills |-> << >>, out |-> << >>, used |-> << >>,
     ret |-> << >>]

NewProof(slot, i) == [brand |-> slot.brand, origin |-> i, n |-> Len(slot.fills) + 1]

\* unlock(self, _proof: Proof<'id>) type-checks iff the brands are equal
UnlockTypeChecks_latestOnly(slot, p) == p.brand = slot.brand /\ p.n = Len(slot.fills)
UnlockTypeChecks(slot, p) == p.brand = slot.brand

\* unlock takes self by value: the Slot is gone afterwards. The record keeps
\* what the container held when unpack ran, the outcome and the Proof used.
SlotAfterUnlock_borrowed(slot, p, o) == [slot EXCEPT !.out = <<o>>, !.used = <<p>>]
SlotAfterUnlock(slot, p, o) ==
    [slot EXCEPT !.own = "moved", !.out = <<o>>, !.used = <<p>>]

Live == {i \in 1..Len(slots) : slots[i].own = "owned"}

\* ---- the protocol ------------------------------------------------------
Init ==
    /\ slots = << >>
    /\ stack = << >>
    /\ proofs = {}
    /\ raw = << >>
    /\ T \in ElemTypes
    /\ released = [i \in Values |-> 0]
    /\ nextId = 1

With(C) ==
    /\ Len(slots) < MaxSlots
    /\ slots' = Append(slots, NewSlot(FreshBrand(slots), C))
    /\ stack' = Append(stack, Len(slots) + 1)
    /\ UNCHANGED <<proofs, raw, T, released, nextId>>

Fill(i) ==
    /\ i \in Live
    /\ nextId <= MaxFills
    /\ LET v == nextId
           r == ContainerFill(slots[i].C, slots[i].contents, v)
       IN /\ slots' = [slots EXCEPT ![i].contents = r.contents,
                                    ![i].fills = Append(@, v)]
          /\ released' = Release(released, r.dropped)
          /\ proofs' = proofs \cup {NewProof(slots[i], i)}
    /\ nextId' = nextId + 1
    /\ UNCHANGED <<stack, raw, T>>

Unlock(i, p) ==
    /\ i \in Live
    /\ p \in proofs
    /\ UnlockTypeChecks(slots[i], p)
    /\ \E o \in ContainerUnpack(slots[i].C, slots[i].contents) :
          slots' = [slots EXCEPT ![i] = SlotAfterUnlock(@, p, o)]
    /\ proofs' = proofs \ {p}
    /\ UNCHANGED <<stack, raw, T, released, nextId>>

DropSlot(i) ==
    /\ i \in Live
    /\ slots' = [slots EXCEPT ![i].own = "dropped"]
    /\ released' = Release(released, ContainerDrop(slots[i].C, slots[i].contents))
    /\ UNCHANGED <<stack, proofs, raw, T, nextId>>

DropProof(p) ==
    /\ p \in proofs
    /\ proofs' = proofs \ {p}
    /\ UNCHANGED <<slots, stack, raw, T, released, nextId>>

\* the innermost callback returns r; a Slot it still owns is dropped and the
\* Proofs of its brand go out of scope with it
Return(r) ==
    /\ stack # << >>
    /\ LET i == stack[Len(stack)]
           s == slots[i]
       IN /\ r \in {<< >>} \cup (IF s.out # << >> THEN {s.out[1].val} ELSE {})
          /\ slots' = [slots EXCEPT ![i].ret = r,
                          ![i].own = IF @ = "owned" THEN "dropped" ELSE @]
          /\ released' = IF s.own = "owned"
                         THEN Release(released, ContainerDrop(s.C, s.contents))
                         ELSE released
          /\ proofs' = {p \in proofs : p.brand # s.brand}
    /\ stack' = SubSeq(stack, 1, Len(stack) - 1)
    /\ UNCHANGED <<raw, T, nextId>>

Next ==
    \/ \E C \in Strategies : With(C)
    \/ \E i \in 1..MaxSlots : Fill(i)
    \/ \E i \in 1..MaxSlots, p \in proofs : Unlock(i, p)
    \/ \E i \in 1..MaxSlots : DropSlot(i)
    \/ \E p \in proofs : DropProof(p)
    \/ \E r \in {<< >>} \cup {<<w>> : w \in Values} : Return(r)

Spec == Init /\ [][Next]_vars

\* ---- the Container trait used directly ----------------------------------
\* Container is a public trait: code outside the Slot/Proof protocol can
\* build a container with empty() and call fill and the unsafe unpack on it
\* in any order.
NewRaw(C) == [C |-> C, contents |-> ContainerEmpty(C), own |-> "owned", out |-> << >>]

RawLive == {k \in 1..Len(raw) : raw[k].own = "owned"}

RawEmpty(C) ==
    /\ Len(raw) < MaxRaw
    /\ raw' = Append(raw, NewRaw(C))
    /\ UNCHANGED <<slots, stack, proofs, T, released, nextId>>

RawFill(k) ==
    /\ k \in RawLive
    /\ nextId <= MaxFills
    /\ LET r == ContainerFill(raw[k].C, raw[k].contents, nextId)
       IN /\ raw' = [raw EXCEPT ![k].contents = r.contents]
          /\ released' = Release(released, r.dropped)
    /\ nextId' = nextId + 1
    /\ UNCHANGED <<slots, stack, proofs, T>>

\* unpack(self): no Proof is asked for here, the container may be empty
RawUnpack(k) ==
    /\ k \in RawLive
    /\ \E o \in ContainerUnpack(raw[k].C, raw[k].contents) :
          raw' = [raw EXCEPT ![k].own = "moved", ![k].out = <<o>>]
    /\ UNCHANGED <<slots, stack, proofs, T, released, nextId>>

RawDrop(k) ==
    /\ k \in RawLive
    /\ raw' = [raw EXCEPT ![k].own = "dropped"]
    /\ released' = Release(released, ContainerDrop(raw[k].C, raw[k].contents))
    /\ UNCHANGED <<slots, stack, proofs, T, nextId>>

NextContainer ==
    \/ \E C \in Strategies : RawEmpty(C)
    \/ \E k \in 1..MaxRaw : RawFill(k)
    \/ \E k \in 1..MaxRaw : RawUnpack(k)
    \/ \E k \in 1..MaxRaw : RawDrop(k)

SpecContainer == Init /\ [][NextContainer]_vars

\* ---- helpers for the properties ----------------------------------------
Last(q) == q[Len(q)]

SlotIds == 1..Len(slots)

\* the lifecycle state of the spec, read off the Slot: a consumed or dropped
\* Slot keeps, in contents, what the container held when it went away
SlotState(s) ==
    IF s.own = "moved" THEN "consumed"
    ELSE IF s.own = "dropped" THEN "dropped"
    ELSE IF s.contents = << >> THEN "empty" ELSE "filled"

Returned(v) == Outcome("value", <<v>>, "")

\* ---- C1 -----------------------------------------------------------------
\* C1: round trip. For both strategies, a Slot made by with, filled once
\* with v and unlocked with the Proof that fill returned yields exactly v
\* from unlock, and with yields v too when the callback returns it.
RoundTrip ==
    \A i \in SlotIds :
        LET s == slots[i] IN
        (s.own = "moved" /\ Len(s.fills) = 1 /\ s.used[1].origin = i)
            => /\ s.out = <<Returned(s.fills[1])>>
               /\ s.ret # << >> => s.ret = <<s.fills[1]>>

\* a once-filled Slot of each strategy was unlocked and with returned the value
RoundTripWitness ==
    /\ Len(slots) = 2
    /\ slots[1].C # slots[2].C
    /\ \A i \in SlotIds :
          /\ slots[i].own = "moved"
          /\ Len(slots[i].fills) = 1
          /\ slots[i].used[1].origin = i
          /\ slots[i].ret = <<slots[i].fills[1]>>

\* ---- C2 -----------------------------------------------------------------
ProofSoundInv ==
    /\ \A p \in proofs :
          \E i \in SlotIds : slots[i].brand = p.brand /\ slots[i].fills # << >>
    /\ \A i \in SlotIds :
          /\ slots[i].own = "moved" =>
                /\ slots[i].contents # << >>
                /\ slots[i].out[1].kind = "value"
          /\ slots[i].fills = << >> =>
                /\ slots[i].own # "moved"
                /\ \A p \in proofs : p.brand # slots[i].brand
                /\ \A p \in proofs : ~ ENABLED Unlock(i, p)

ProofOnlyFromFill ==
    \A p \in proofs' \ proofs :
        /\ p.origin \in SlotIds
        /\ p.brand = slots[p.origin].brand
        /\ Len(slots'[p.origin].fills) = Len(slots[p.origin].fills) + 1

\* C2: proof soundness. A Proof of a brand exists only once fill has run on
\* the Slot of that brand, only a fill step adds a Proof, every unpack
\* reached through unlock runs on a filled container (no panic, no read of
\* uninitialised memory), and a Slot never filled has no Proof and cannot
\* be unlocked.
ProofSoundness == []ProofSoundInv /\ [][ProofOnlyFromFill]_vars

\* an unchecked Slot was unlocked while another Slot, never filled, is alive
\* next to a Proof it cannot use
ProofSoundnessWitness ==
    \E i, j \in SlotIds :
        /\ slots[i].C = "MaybeUninit" /\ slots[i].own = "moved"
        /\ slots[j].own = "owned" /\ slots[j].fills = << >>
        /\ proofs # {}

\* ---- C3 -----------------------------------------------------------------
\* C3: brand isolation. Every with mints a brand no other Slot has, unlock
\* on a Slot type-checks only with a Proof minted by a fill on that same
\* Slot, whatever the strategies and the nesting, and every unlock that
\* happened used such a Proof.
BrandIsolation ==
    /\ \A i, j \in SlotIds : i # j => slots[i].brand # slots[j].brand
    /\ \A i \in SlotIds, p \in proofs :
          p.origin # i => /\ ~ UnlockTypeChecks(slots[i], p)
                          /\ ~ ENABLED Unlock(i, p)
    /\ \A i \in SlotIds : slots[i].own = "moved" => slots[i].used[1].origin = i

\* nested Slots of one strategy and one element type: the outer one was
\* unlocked while a Proof of the filled inner one is held
BrandIsolationWitness ==
    /\ Len(stack) = 2
    /\ slots[1].C = slots[2].C
    /\ slots[1].own = "moved"
    /\ slots[2].own = "owned" /\ slots[2].fills # << >>
    /\ \E p \in proofs : p.origin = 2

\* ---- C4 -----------------------------------------------------------------
CheckedFillInv ==
    \A i \in SlotIds :
        LET s == slots[i] IN
        s.C = "Option" =>
            /\ (s.own = "owned" /\ Len(s.fills) = 1) => released[s.fills[1]] = 0
            /\ (s.own = "moved" /\ Len(s.fills) >= 2) => s.out = <<Returned(Last(s.fills))>>

CheckedRefillStep ==
    \A i \in SlotIds :
        (/\ slots[i].C = "Option"
         /\ slots[i].fills # << >>
         /\ Len(slots'[i].fills) = Len(slots[i].fills) + 1)
            => /\ released[Last(slots[i].fills)] = 0
               /\ released'[Last(slots[i].fills)] = 1
               /\ released'[Last(slots'[i].fills)] = 0
               /\ slots'[i].contents = <<Last(slots'[i].fills)>>

\* C4: checked double fill. On an Option-backed Slot nothing is released by
\* the first fill; a later fill releases the value it overwrites in that
\* very step (count 0 before, 1 after) and does not release the new value;
\* unlock then returns the last value filled.
CheckedDoubleFill == []CheckedFillInv /\ [][CheckedRefillStep]_vars

CheckedDoubleFillWitness ==
    \E i \in SlotIds :
        /\ slots[i].C = "Option" /\ slots[i].own = "moved"
        /\ Len(slots[i].fills) = 2
        /\ released[slots[i].fills[1]] = 1
        /\ slots[i].out = <<Returned(slots[i].fills[2])>>

\* ---- C5 -----------------------------------------------------------------
\* C5: checked release accounting. For an Option-backed Slot with n >= 1
\* fills: dropped without unlock, each of the n values was released exactly
\* once; unlocked, the n-1 overwritten values were released once and the
\* value unlock returned was not released; no value is released twice.
CheckedReleaseAccounting ==
    /\ \A v \in Values : released[v] <= 1
    /\ \A i \in SlotIds :
          LET s == slots[i]
              n == Len(s.fills)
          IN (s.C = "Option" /\ n >= 1) =>
                /\ \A k \in 1..(n - 1) : released[s.fills[k]] = 1
                /\ s.own = "dropped" => released[s.fills[n]] = 1
                /\ s.own = "moved" =>
                      /\ released[s.fills[n]] = 0
                      /\ s.out = <<Returned(s.fills[n])>>

\* a checked Slot filled twice left its scope without unlock: two releases
CheckedReleaseWitness ==
    /\ stack = << >>
    /\ \E i \in SlotIds :
          /\ slots[i].C = "Option" /\ slots[i].own = "dropped"
          /\ Len(slots[i].fills) = 2
          /\ released[slots[i].fills[1]] = 1
          /\ released[slots[i].fills[2]] = 1

\* ---- C6 -----------------------------------------------------------------
\* C6: unchecked leak policy. A MaybeUninit-backed Slot never releases a
\* value filled into it: not the one a later fill overwrites, not the one
\* it holds when dropped; a value leaves it only as the result of unlock,
\* and that is the last value filled.
LeakyNeverReleases ==
    \A i \in SlotIds :
        LET s == slots[i] IN
        s.C = "MaybeUninit" =>
            /\ \A k \in 1..Len(s.fills) : released[s.fills[k]] = 0
            /\ s.out # << >> => (s.own = "moved" /\ s.out = <<Returned(Last(s.fills))>>)

\* an unchecked Slot filled twice left its scope without unlock
LeakyWitness ==
    \E i \in SlotIds :
        /\ slots[i].C = "MaybeUninit" /\ slots[i].own = "dropped"
        /\ Len(slots[i].fills) = 2
        /\ stack = << >>

\* ---- C7 -----------------------------------------------------------------
\* C7: on an Option-backed container, unpack of an empty container panics
\* with "trying to unpack None Container" and yields no value; unpack of a
\* filled one returns the stored value.
CheckedUnpackDefined ==
    \A k \in 1..Len(raw) :
        (raw[k].C = "Option" /\ raw[k].own = "moved") =>
            /\ raw[k].contents = << >> =>
                  raw[k].out = <<Outcome("panic", << >>, "trying to unpack None Container")>>
            /\ raw[k].contents # << >> =>
                  raw[k].out = <<Outcome("value", raw[k].contents, "")>>

\* one checked container unpacked empty, another unpacked after a fill
CheckedUnpackWitness ==
    \E k, m \in 1..Len(raw) :
        /\ raw[k].C = "Option" /\ raw[k].own = "moved" /\ raw[k].contents = << >>
        /\ raw[m].C = "Option" /\ raw[m].own = "moved" /\ raw[m].contents # << >>

\* ---- C8 -----------------------------------------------------------------
\* C8: a MaybeUninit-backed Slot is exactly as large as its element type;
\* LeakySlot<u64> is 8 bytes.
LeakyIsFree ==
    \A i \in SlotIds :
        slots[i].C = "MaybeUninit" =>
            /\ SizeOfSlot(slots[i].C, T) = SizeOfElem(T)
            /\ T = "u64" => SizeOfSlot(slots[i].C, T) = 8

LeakyIsFreeWitness ==
    /\ T = "u64"
    /\ \E i \in SlotIds : slots[i].C = "MaybeUninit" /\ slots[i].own = "moved"

\* ---- C9 -----------------------------------------------------------------
LifecycleSteps ==
    {<<"empty", "empty">>, <<"empty", "filled">>, <<"filled", "filled">>,
     <<"filled", "consumed">>, <<"empty", "dropped">>, <<"filled", "dropped">>,
     <<"consumed", "consumed">>, <<"dropped", "dropped">>}

LifecycleStep ==
    /\ \A i \in SlotIds :
          LET s == slots[i]
              t == slots'[i]
          IN /\ <<SlotState(s), SlotState(t)>> \in LifecycleSteps
             /\ t.brand = s.brand
             /\ Len(t.fills) > Len(s.fills) => SlotState(t) = "filled"
             /\ t.out # s.out => (SlotState(s) = "filled" /\ SlotState(t) = "consumed")
             /\ SlotState(s) \in {"consumed", "dropped"} =>
                   (t.fills = s.fills /\ t.out = s.out /\ t.contents = s.contents)
    /\ \A i \in (Len(slots) + 1)..Len(slots') : SlotState(slots'[i]) = "empty"

\* C9: lifecycle. A Slot starts empty, a fill makes or keeps it filled,
\* unlock happens only from filled and makes it consumed; a consumed or
\* dropped Slot is never filled or unlocked again, so it hands out a value
\* at most once; its brand never changes.
SlotLifecycle ==
    /\ [](\A i \in SlotIds : slots[i].own \in {"moved", "dropped"} =>
              (~ ENABLED Fill(i) /\ \A p \in proofs : ~ ENABLED Unlock(i, p)))
    /\ [][LifecycleStep]_vars

\* a Slot was consumed while Proofs of its brand and fresh values remain
SlotLifecycleWitness ==
    \E i \in SlotIds :
        /\ slots[i].own = "moved"
        /\ Len(slots[i].fills) = 2
        /\ \E p \in proofs : p.origin = i
        /\ nextId <= MaxFills

\* ---- C10 ----------------------------------------------------------------
ProofsInterchangeableInv ==
    \A i \in SlotIds :
        LET s == slots[i] IN
        /\ s.own = "owned" =>
              \A p \in proofs : p.origin = i => ENABLED Unlock(i, p)
        /\ s.own = "moved" => s.out = <<Returned(Last(s.fills))>>

ProofsKeptStep ==
    \* a fill keeps every Proof that existed
    /\ (\E i \in SlotIds : Len(slots'[i].fills) > Len(slots[i].fills)) =>
          proofs \subseteq proofs'
    \* dropping a Proof unused changes no Slot
    /\ (proofs' # proofs /\ proofs' \subseteq proofs /\ stack' = stack
        /\ \A i \in SlotIds : slots'[i].own = slots[i].own) => slots' = slots

\* C10: Proofs never expire and are interchangeable. After fills v1..vn on
\* a Slot, unlock accepts the Proof of any of them and returns vn, for both
\* strategies; a later fill invalidates no Proof, and a Proof dropped
\* unused leaves the Slot as it is.
ProofsInterchangeable == []ProofsInterchangeableInv /\ [][ProofsKeptStep]_vars

\* a Slot filled twice was unlocked with the Proof of its first fill
ProofsInterchangeableWitness ==
    \E i \in SlotIds :
        /\ slots[i].own = "moved"
        /\ Len(slots[i].fills) = 2
        /\ slots[i].used[1].n = 1
        /\ slots[i].used[1].origin = i
====
